---- MODULE Spec2Model ----
(***************************************************************************)
(* Real-time audio capture, buffering and incremental transcription of the *)
(* NHS paperwork agent.                                                    *)
(*                                                                         *)
(*   - AudioBuffer (services/realtime_audio_service.py): the ring buffer.  *)
(*     Specification SpecBuf drives one AudioBuffer instance.              *)
(*   - BasicAudioSession / BasicRealtimeAudioService /                     *)
(*     BasicRealtimeTranscriptionManager (services/basic_realtime_audio.py)*)
(*     : the session table the HTTP API and the WebSocket endpoint of      *)
(*     api/main.py are wired to.  Specification Spec drives it.            *)
(***************************************************************************)
EXTENDS Integers, Sequences, FiniteSets, TLC

(***************************************************************************)
(* Bounds of the model.                                                    *)
(***************************************************************************)
\* AudioBuffer(sample_rate, buffer_duration): the instance under test keeps
\* buffer_duration seconds at sample_rate samples per second.
buffer_duration == 3
\* longest audio_data handed to one AudioBuffer.write call (samples)
MaxWriteLen == 4
\* total number of samples written to the AudioBuffer in one behaviour
MaxWritten == 7

\* last value of the clock time.time()
MaxTime == 2
\* most segments the session Spec follows has in its log
MaxSegments == 2
\* most segments the two sessions SpecPair follows have in their logs, together
MaxPairSegments == 1
\* longest audio_data handed to one process_audio_data call (blocks)
MaxChunk == 3
\* most blocks a session's audio_buffer holds
MaxBuffer == 4
\* most segments the session SpecWs follows has in its log
MaxWsSegments == 2
\* most segments the sessions SpecLib follows have in their logs
MaxLibSegments == 1
\* most segments the session SpecStream follows has in its log
MaxStreamSegments == 2
\* most segments the session SpecRealtime follows has in its log
MaxRealtimeSegments == 2
\* most coroutine objects left un-awaited
MaxNeverAwaited == 2
\* most seconds of audio in the audio_buffer of the RealtimeAudioTranscriber
MaxTranscriberBuffer == 4

\* constructor argument sample_rate of the AudioBuffer instance under test
sample_rate == 1

\* the sample values a client may send; 0 is the value np.zeros leaves in a
\* slot that was never written
Samples == {1, 2}

Min(a, b) == IF a <= b THEN a ELSE b

\* all sequences over S of length 0..n
RECURSIVE SeqsUpTo(_, _)
SeqsUpTo(S, n) ==
    IF n = 0 THEN {<<>>}
    ELSE LET shorter == SeqsUpTo(S, n - 1)
         IN  shorter \cup {Append(q, x) : q \in {r \in shorter : Len(r) = n - 1}, x \in S}

\* the last n elements of sequence q (all of q when it is shorter)
LastN(q, n) == IF Len(q) <= n THEN q ELSE SubSeq(q, Len(q) - n + 1, Len(q))

VARIABLES
    buffer,        \* AudioBuffer.buffer: 0-based array of buffer_size samples
    write_index,   \* AudioBuffer.write_index
    is_full,       \* AudioBuffer.is_full
    written        \* history: every sample ever passed to write, in order

bufVars == <<buffer, write_index, is_full, written>>

VARIABLES
    sessions,         \* BasicRealtimeAudioService.sessions: id -> BasicAudioSession
    active_sessions,  \* BasicRealtimeTranscriptionManager.active_sessions
    issued,           \* number of ids uuid4 has handed out so far
    now,              \* the clock read by time.time() and datetime.now()
    in_flight,        \* the blocking transcriptions.create call in progress, or NoCall
    delivered         \* history: id -> every new_segments list returned, concatenated

svcVars == <<sessions, active_sessions, issued, now, in_flight, delivered>>

VARIABLES
    ws,               \* api/main.py websocket_audio_stream: connection -> its handler
    never_awaited,    \* number of coroutine objects created and never awaited
    heard,            \* history: id -> what the session's stream has been through
    realtime          \* RealtimeTranscriptionManager: its active_sessions and the
                      \* sessions of its RealtimeAudioService; called is history:
                      \* whether the last process_audio_chunk reached
                      \* transcriptions.create
VARIABLES
    transcriber       \* one RealtimeAudioTranscriber of realtime_websocket_service.py
                      \* and the handlers of the connections it serves

\* what the operations of BasicRealtimeTranscriptionManager never touch
apiVars == <<ws, never_awaited, heard, realtime, transcriber>>

\* apiVars without ws, without never_awaited, without heard, without realtime,
\* without transcriber
exceptWs == <<never_awaited, heard, realtime, transcriber>>
exceptNeverAwaited == <<ws, heard, realtime, transcriber>>
exceptHeard == <<ws, never_awaited, realtime, transcriber>>
exceptRealtime == <<ws, never_awaited, heard, transcriber>>
exceptTranscriber == <<ws, never_awaited, heard, realtime>>

vars == <<buffer, write_index, is_full, written,
          sessions, active_sessions, issued, now, in_flight, delivered,
          ws, never_awaited, heard, realtime, transcriber>>

(***************************************************************************)
(* AudioBuffer                                                             *)
(***************************************************************************)
\* self.buffer_size = int(sample_rate * buffer_duration)
buffer_size == sample_rate * buffer_duration

\* Python slice arr[lo:hi] of a 0-based array, as a sequence
Slice(arr, lo, hi) == [i \in 1..(hi - lo) |-> arr[lo + i - 1]]

\* Python slice assignment arr[lo:lo+len(data)] = data
SliceAssign(arr, lo, data) ==
    [i \in DOMAIN arr |-> IF lo <= i /\ i < lo + Len(data) THEN data[i - lo + 1] ELSE arr[i]]

\* a sequence as a 0-based array
AsArray(q) == [i \in 0..(Len(q) - 1) |-> q[i + 1]]

BufInit ==
    /\ buffer = [i \in 0..(buffer_size - 1) |-> 0]
    /\ write_index = 0
    /\ is_full = FALSE
    /\ written = <<>>

\* write as it would be with the cursor advanced without the modulo:
\* self.write_index = end_index
write_no_modulo(audio_data) ==
    LET data_length == Len(audio_data)
        end_index == write_index + data_length
        first_chunk_size == buffer_size - write_index
    IN  /\ IF data_length >= buffer_size
           THEN /\ buffer' = AsArray(LastN(audio_data, buffer_size))
                /\ write_index' = 0
                /\ is_full' = TRUE
           ELSE IF end_index <= buffer_size
           THEN /\ buffer' = SliceAssign(buffer, write_index, audio_data)
                /\ write_index' = end_index
                /\ is_full' = is_full
           ELSE /\ buffer' = SliceAssign(
                                SliceAssign(buffer, write_index,
                                            SubSeq(audio_data, 1, first_chunk_size)),
                                0, SubSeq(audio_data, first_chunk_size + 1, data_length))
                /\ write_index' = data_length - first_chunk_size
                /\ is_full' = TRUE
        /\ written' = written \o audio_data

\* AudioBuffer.write(audio_data)
write(audio_data) ==
    LET data_length == Len(audio_data)
        end_index == write_index + data_length
        first_chunk_size == buffer_size - write_index
    IN  /\ IF data_length >= buffer_size
           THEN /\ buffer' = AsArray(LastN(audio_data, buffer_size))
                /\ write_index' = 0
                /\ is_full' = TRUE
           ELSE IF end_index <= buffer_size
           THEN /\ buffer' = SliceAssign(buffer, write_index, audio_data)
                /\ write_index' = end_index % buffer_size
                /\ is_full' = is_full
           ELSE /\ buffer' = SliceAssign(
                                SliceAssign(buffer, write_index,
                                            SubSeq(audio_data, 1, first_chunk_size)),
                                0, SubSeq(audio_data, first_chunk_size + 1, data_length))
                /\ write_index' = data_length - first_chunk_size
                /\ is_full' = TRUE
        /\ written' = written \o audio_data

\* AudioBuffer.read_last_seconds(duration)
read_last_seconds(duration) ==
    LET samples == Min(sample_rate * duration, buffer_size)
    IN  IF ~is_full /\ write_index < samples
        THEN Slice(buffer, 0, write_index)
        ELSE IF write_index >= samples
        THEN Slice(buffer, write_index - samples, write_index)
        ELSE Slice(buffer, buffer_size - (samples - write_index), buffer_size)
                \o Slice(buffer, 0, write_index)

(***************************************************************************)
(* Text.  A string is a sequence of characters; " " is the only            *)
(* whitespace character of the alphabet.                                   *)
(***************************************************************************)
\* str.strip(): drop leading and trailing whitespace
RECURSIVE strip(_)
strip(t) ==
    IF t = <<>> THEN <<>>
    ELSE IF Head(t) = " " THEN strip(Tail(t))
    ELSE IF t[Len(t)] = " " THEN strip(SubSeq(t, 1, Len(t) - 1))
    ELSE t

\* sep.join(texts)
RECURSIVE join(_, _)
join(texts, sep) ==
    IF texts = <<>> THEN <<>>
    ELSE IF Len(texts) = 1 THEN texts[1]
    ELSE texts[1] \o sep \o join(Tail(texts), sep)

\* the texts the transcription collaborator may answer with
Transcripts == { <<>>, <<" ">>, <<"a">>, <<" ", "b", " ">> }

\* every outcome of one transcriptions.create call: it raises, or it answers
Replies == {[raised |-> TRUE, text |-> <<>>]}
              \cup {[raised |-> FALSE, text |-> t] : t \in Transcripts}

(***************************************************************************)
(* Audio.  One block is one second of 16 kHz 16-bit mono PCM; clients send *)
(* whole blocks.  The stream fed to session s is made of blocks of value s,*)
(* so that the streams of distinct sessions are distinct.                  *)
(***************************************************************************)
\* estimated_duration = buffer_size / (16000 * 2)
BytesPerSecond == 16000 * 2

\* bytes in one block of audio
BlockBytes == BytesPerSecond

\* the transcription threshold of process_audio_data, in seconds
TranscribeSeconds == 3

\* n blocks of the stream fed to session s
Blocks(s, n) == [i \in 1..n |-> s]

\* len(audio_buffer) in bytes
ByteLen(audio) == Len(audio) * BlockBytes

(***************************************************************************)
(* BasicAudioSession                                                       *)
(***************************************************************************)
\* the value of a time field that was never set; time.time() is never 0,
\* and the code tests these fields for truth
None == 0

\* no transcriptions.create call is in progress
NoCall == [session_id |-> 0, op |-> "none", audio |-> <<>>]

\* the session ids uuid4 hands out, in the order it hands them out.  Spec
\* follows one session through its whole life, the clock included; SpecPair
\* follows two sessions side by side within one reading of the clock.
OneSession == {1}
TwoSessions == {1, 2}
SessionIds == TwoSessions

\* BasicAudioSession.__init__
BasicAudioSession(session_id) ==
    [ session_id              |-> session_id,
      is_recording            |-> FALSE,
      recording_start_time    |-> None,
      recording_end_time      |-> None,
      transcription_segments  |-> <<>>,
      full_transcription      |-> <<>>,
      transcription_queue     |-> <<>>,
      audio_buffer            |-> <<>>,
      last_transcription_time |-> None ]

\* BasicAudioSession.start_recording
start_recording(session) ==
    [session EXCEPT !.is_recording = TRUE, !.recording_start_time = now]

\* BasicAudioSession.stop_recording
stop_recording(session) ==
    [session EXCEPT !.is_recording = FALSE, !.recording_end_time = now]

\* add_transcription_segment as it would be with the separator forgotten:
\* self.full_transcription += text.strip()
add_transcription_segment_no_separator(session, text, confidence) ==
    LET segment == [ text       |-> strip(text),
                     timestamp  |-> now,
                     confidence |-> confidence,
                     session_id |-> session.session_id ]
    IN  [session EXCEPT
            !.transcription_segments = Append(@, segment),
            !.full_transcription = @ \o strip(text),
            !.transcription_queue = Append(@, segment),
            !.last_transcription_time = now]

\* BasicAudioSession.add_transcription_segment
add_transcription_segment(session, text, confidence) ==
    LET segment == [ text       |-> strip(text),
                     timestamp  |-> now,
                     confidence |-> confidence,
                     session_id |-> session.session_id ]
    IN  [session EXCEPT
            !.transcription_segments = Append(@, segment),
            !.full_transcription = @ \o <<" ">> \o strip(text),
            !.transcription_queue = Append(@, segment),
            !.last_transcription_time = now]

\* BasicAudioSession.add_audio_data
add_audio_data(session, audio_data) ==
    [session EXCEPT !.audio_buffer = @ \o audio_data]

\* BasicAudioSession.clear_audio_buffer
clear_audio_buffer(session) ==
    [session EXCEPT !.audio_buffer = <<>>]

\* BasicAudioSession.get_recording_duration
get_recording_duration(session) ==
    IF session.recording_start_time = None THEN 0
    ELSE (IF session.recording_end_time # None
          THEN session.recording_end_time ELSE now)
         - session.recording_start_time

\* BasicAudioSession.get_status
get_status(session) ==
    [ session_id         |-> session.session_id,
      is_recording       |-> session.is_recording,
      recording_duration |-> get_recording_duration(session),
      segment_count      |-> Len(session.transcription_segments),
      full_transcription |-> strip(session.full_transcription),
      audio_buffer_size  |-> ByteLen(session.audio_buffer),
      last_transcription |-> session.last_transcription_time ]

(***************************************************************************)
(* BasicRealtimeAudioService                                               *)
(***************************************************************************)
\* self.sessions[session_id] = session
Put(table, session_id, session) ==
    [x \in DOMAIN table \cup {session_id} |->
        IF x = session_id THEN session ELSE table[x]]

\* cleanup_session as it would be with the whole table dropped:
\* self.sessions.clear()
DelAll(table, session_id) == <<>>

\* del self.sessions[session_id]
Del(table, session_id) ==
    [x \in DOMAIN table \ {session_id} |-> table[x]]

\* int.to_bytes(length, 'little')
to_bytes(v, length) == [i \in 1..length |-> (v \div (256 ^ (i - 1))) % 256]

\* the bytes of the four tags of the header: b'RIFF', b'WAVE', b'fmt ', b'data'
TagBytes(tag) ==
    CASE tag = "RIFF" -> <<82, 73, 70, 70>>
      [] tag = "WAVE" -> <<87, 65, 86, 69>>
      [] tag = "fmt " -> <<102, 109, 116, 32>>
      [] tag = "data" -> <<100, 97, 116, 97>>

\* _create_temp_wav_from_buffer: the bytes written to the file ahead of the
\* audio, in the order of the temp_file.write calls
wav_header(wav) ==
    TagBytes(wav.riff) \o to_bytes(wav.chunk_size, 4)
        \o TagBytes(wav.wave) \o TagBytes(wav.fmt)
        \o to_bytes(wav.subchunk1_size, 4)
        \o to_bytes(wav.audio_format, 2)
        \o to_bytes(wav.channels, 2)
        \o to_bytes(wav.sample_rate, 4)
        \o to_bytes(wav.byte_rate, 4)
        \o to_bytes(wav.block_align, 2)
        \o to_bytes(wav.bits_per_sample, 2)
        \o TagBytes(wav.data_tag) \o to_bytes(wav.subchunk2_size, 4)

\* _create_temp_wav_from_buffer as it would be with the whole file length in
\* the RIFF chunk size: (len(audio_buffer) + 44).to_bytes(4, 'little')
_create_temp_wav_from_buffer_whole_length(audio_buffer) ==
    [ riff            |-> "RIFF",
      chunk_size      |-> ByteLen(audio_buffer) + 44,
      wave            |-> "WAVE",
      fmt             |-> "fmt ",
      subchunk1_size  |-> 16,
      audio_format    |-> 1,
      channels        |-> 1,
      sample_rate     |-> 16000,
      byte_rate       |-> (16000 * 1 * 16) \div 8,
      block_align     |-> (1 * 16) \div 8,
      bits_per_sample |-> 16,
      data_tag        |-> "data",
      subchunk2_size  |-> ByteLen(audio_buffer),
      data            |-> audio_buffer ]

\* BasicRealtimeAudioService._create_temp_wav_from_buffer: the file written
_create_temp_wav_from_buffer(audio_buffer) ==
    [ riff            |-> "RIFF",
      chunk_size      |-> ByteLen(audio_buffer) + 36,
      wave            |-> "WAVE",
      fmt             |-> "fmt ",
      subchunk1_size  |-> 16,
      audio_format    |-> 1,
      channels        |-> 1,
      sample_rate     |-> 16000,
      byte_rate       |-> (16000 * 1 * 16) \div 8,
      block_align     |-> (1 * 16) \div 8,
      bits_per_sample |-> 16,
      data_tag        |-> "data",
      subchunk2_size  |-> ByteLen(audio_buffer),
      data            |-> audio_buffer ]

\* transcribe_audio_file as it would be if it put the error of a failed
\* call into the log: session.add_transcription_segment(str(e), 0.0)
transcribe_audio_file_logs_error(session, reply) ==
    IF reply.raised
    THEN [session |-> add_transcription_segment(session, <<"e">>, "0.0"),
          value   |-> [error |-> "transcription failed"]]
    ELSE IF strip(reply.text) # <<>>
    THEN [session |-> add_transcription_segment(session, strip(reply.text), "0.9"),
          value   |-> [status |-> "success", text |-> strip(reply.text),
                       confidence |-> "0.9", timestamp |-> now]]
    ELSE [session |-> session, value |-> [status |-> "no_speech"]]

\* BasicRealtimeAudioService.transcribe_audio_file, from the collaborator's
\* reply on: the session afterwards and the value returned
transcribe_audio_file(session, reply) ==
    IF reply.raised
    THEN [session |-> session, value |-> [error |-> "transcription failed"]]
    ELSE IF strip(reply.text) # <<>>
    THEN [session |-> add_transcription_segment(session, strip(reply.text), "0.9"),
          value   |-> [status |-> "success", text |-> strip(reply.text),
                       confidence |-> "0.9", timestamp |-> now]]
    ELSE [session |-> session, value |-> [status |-> "no_speech"]]

\* BasicRealtimeAudioService.get_final_transcription
get_final_transcription(session) == strip(session.full_transcription)

\* get_live_transcription as it would be if it returned the whole log
\* instead of draining the queue
get_live_transcription_whole_log(session) ==
    [ session_id         |-> session.session_id,
      is_recording       |-> session.is_recording,
      new_segments       |-> session.transcription_segments,
      full_transcription |-> strip(session.full_transcription),
      segment_count      |-> Len(session.transcription_segments) ]

\* BasicRealtimeAudioService.get_live_transcription: the value returned
get_live_transcription(session) ==
    [ session_id         |-> session.session_id,
      is_recording       |-> session.is_recording,
      new_segments       |-> session.transcription_queue,
      full_transcription |-> strip(session.full_transcription),
      segment_count      |-> Len(session.transcription_segments) ]

(***************************************************************************)
(* The operations of BasicRealtimeTranscriptionManager, as the endpoints   *)
(* of api/main.py call them.  Every endpoint is a coroutine of one event   *)
(* loop, and transcriptions.create is a synchronous call made on that      *)
(* loop: while it is in progress no other coroutine runs.                  *)
(*                                                                         *)
(* What a call returns is a function of the state it is made in: the       *)
(* ...Returns operators give it.                                           *)
(***************************************************************************)
LoopIdle == in_flight = NoCall

\* create_session as it would be without self.active_sessions.add(session_id)
CreateSessionNotAdded(ids) ==
    /\ LoopIdle
    /\ issued < Cardinality(ids)
    /\ LET session_id == issued + 1
       IN  /\ sessions' = Put(sessions, session_id, BasicAudioSession(session_id))
           /\ active_sessions' = active_sessions
    /\ issued' = issued + 1
    /\ UNCHANGED <<now, in_flight, delivered>>
    /\ UNCHANGED bufVars

\* BasicRealtimeTranscriptionManager.create_session
CreateSession(ids) ==
    /\ LoopIdle
    /\ issued < Cardinality(ids)
    /\ LET session_id == issued + 1
       IN  /\ sessions' = Put(sessions, session_id, BasicAudioSession(session_id))
           /\ active_sessions' = active_sessions \cup {session_id}
    /\ issued' = issued + 1
    /\ UNCHANGED <<now, in_flight, delivered>>
    /\ UNCHANGED bufVars

\* BasicRealtimeAudioService.create_session called with a session_id of the
\* caller's choosing, an id it was given before: the service is reached
\* without the manager, whose active_sessions is not touched
ServiceCreateSession(session_id) ==
    /\ LoopIdle
    /\ session_id <= issued
    /\ sessions' = Put(sessions, session_id, BasicAudioSession(session_id))
    /\ UNCHANGED <<active_sessions, issued, now, in_flight, delivered>>
    /\ UNCHANGED bufVars

\* BasicRealtimeTranscriptionManager.start_recording: the value returned
StartRecordingReturns(session_id) ==
    IF session_id \in DOMAIN sessions
    THEN [status |-> "recording_started", session_id |-> session_id, timestamp |-> now]
    ELSE [status |-> "error", message |-> "Failed to start recording"]

\* start_recording as it would be if it opened a session for an id it does
\* not know
StartRecordingCreatesMissing(session_id) ==
    /\ LoopIdle
    /\ sessions' = IF session_id \in DOMAIN sessions
                   THEN [sessions EXCEPT ![session_id] = start_recording(@)]
                   ELSE Put(sessions, session_id,
                            start_recording(BasicAudioSession(session_id)))
    /\ UNCHANGED <<active_sessions, issued, now, in_flight, delivered>>
    /\ UNCHANGED bufVars

\* BasicRealtimeTranscriptionManager.start_recording
StartRecording(session_id) ==
    /\ LoopIdle
    /\ sessions' = IF session_id \in DOMAIN sessions
                   THEN [sessions EXCEPT ![session_id] = start_recording(@)]
                   ELSE sessions
    /\ UNCHANGED <<active_sessions, issued, now, in_flight, delivered>>
    /\ UNCHANGED bufVars

\* BasicRealtimeTranscriptionManager.stop_recording: the value returned
StopRecordingReturns(session_id) ==
    IF session_id \in DOMAIN sessions
    THEN [status |-> "recording_stopped", session_id |-> session_id,
          final_transcription |->
              get_final_transcription(stop_recording(sessions[session_id])),
          timestamp |-> now]
    ELSE [status |-> "error", message |-> "Failed to stop recording"]

\* BasicRealtimeTranscriptionManager.stop_recording
StopRecording(session_id) ==
    /\ LoopIdle
    /\ sessions' = IF session_id \in DOMAIN sessions
                   THEN [sessions EXCEPT ![session_id] = stop_recording(@)]
                   ELSE sessions
    /\ UNCHANGED <<active_sessions, issued, now, in_flight, delivered>>
    /\ UNCHANGED bufVars

\* the transcription branch as it would be with a threshold of 4 seconds
EnoughAudioFourSeconds(audio_buffer) ==
    ByteLen(audio_buffer) >= (TranscribeSeconds + 1) * BytesPerSecond

\* process_audio_data reaches the transcription branch
EnoughAudio(audio_buffer) ==
    ByteLen(audio_buffer) >= TranscribeSeconds * BytesPerSecond

\* BasicRealtimeTranscriptionManager.process_audio_data: the value returned
\* when the call returns without calling the collaborator
ProcessAudioDataReturns(session_id, audio_data) ==
    IF session_id \notin DOMAIN sessions
    THEN [error |-> "Session not found"]
    ELSE [status |-> "buffering",
          buffer_size |->
              ByteLen(add_audio_data(sessions[session_id], audio_data).audio_buffer)]

\* process_audio_data as it would be if it opened a session for audio that
\* arrives for an id it does not know
ProcessAudioDataCreatesMissing(session_id, audio_data) ==
    /\ LoopIdle
    /\ IF session_id \notin DOMAIN sessions
       THEN /\ sessions' = Put(sessions, session_id,
                               add_audio_data(BasicAudioSession(session_id), audio_data))
            /\ in_flight' = in_flight
       ELSE LET session == add_audio_data(sessions[session_id], audio_data)
            IN  /\ Len(session.audio_buffer) <= MaxBuffer
                /\ sessions' = [sessions EXCEPT ![session_id] = session]
                /\ IF EnoughAudio(session.audio_buffer)
                   THEN \/ in_flight' = [session_id |-> session_id,
                                         op |-> "process_audio_data",
                                         audio |-> _create_temp_wav_from_buffer(session.audio_buffer)]
                        \/ in_flight' = in_flight
                   ELSE in_flight' = in_flight
    /\ UNCHANGED <<active_sessions, issued, now, delivered>>
    /\ UNCHANGED bufVars

\* BasicRealtimeTranscriptionManager.process_audio_data, up to the point
\* where it returns or calls the collaborator
ProcessAudioData(session_id, audio_data) ==
    /\ LoopIdle
    /\ IF session_id \notin DOMAIN sessions
       THEN UNCHANGED <<sessions, in_flight>>
       ELSE LET session == add_audio_data(sessions[session_id], audio_data)
            IN  /\ Len(session.audio_buffer) <= MaxBuffer
                /\ sessions' = [sessions EXCEPT ![session_id] = session]
                /\ IF EnoughAudio(session.audio_buffer)
                   THEN \/ \* the WAV file is written and handed to the collaborator
                           in_flight' = [session_id |-> session_id,
                                         op |-> "process_audio_data",
                                         audio |-> _create_temp_wav_from_buffer(session.audio_buffer)]
                        \/ \* the WAV file cannot be written: temp_path is None
                           in_flight' = in_flight
                   ELSE in_flight' = in_flight
    /\ UNCHANGED <<active_sessions, issued, now, delivered>>
    /\ UNCHANGED bufVars

\* BasicRealtimeTranscriptionManager.transcribe_uploaded_audio, up to the
\* point where it returns or calls the collaborator
TranscribeUploadedAudio(session_id, audio_file) ==
    /\ LoopIdle
    /\ in_flight' = IF session_id \notin DOMAIN sessions
                    THEN in_flight
                    ELSE [session_id |-> session_id,
                          op |-> "transcribe_uploaded_audio",
                          audio |-> audio_file]
    /\ UNCHANGED <<sessions, active_sessions, issued, now, delivered>>
    /\ UNCHANGED bufVars

\* the number of segments in the logs of all sessions of the table
RECURSIVE SegmentsLogged(_)
SegmentsLogged(table) ==
    IF DOMAIN table = {} THEN 0
    ELSE LET s == CHOOSE x \in DOMAIN table : TRUE
         IN  Len(table[s].transcription_segments)
                + SegmentsLogged([x \in DOMAIN table \ {s} |-> table[x]])

\* the collaborator call in progress ends (it answers or raises), and
\* process_audio_data or transcribe_uploaded_audio runs to its return
CollaboratorReturns(reply, max_segments) ==
    /\ in_flight # NoCall
    /\ LET session_id == in_flight.session_id
           done == transcribe_audio_file(sessions[session_id], reply)
       IN  /\ sessions' = [sessions EXCEPT ![session_id] =
                              IF in_flight.op = "process_audio_data"
                              THEN clear_audio_buffer(done.session)
                              ELSE done.session]
    /\ SegmentsLogged(sessions') <= max_segments
    /\ in_flight' = NoCall
    /\ UNCHANGED <<active_sessions, issued, now, delivered>>
    /\ UNCHANGED bufVars

\* BasicRealtimeTranscriptionManager.get_transcription_updates: the value
\* returned
GetTranscriptionUpdatesReturns(session_id) ==
    IF session_id \in DOMAIN sessions
    THEN get_live_transcription(sessions[session_id])
    ELSE [error |-> "Session not found"]

\* BasicRealtimeTranscriptionManager.get_transcription_updates
GetTranscriptionUpdates(session_id) ==
    /\ LoopIdle
    /\ IF session_id \notin DOMAIN sessions
       THEN UNCHANGED <<sessions, delivered>>
       ELSE /\ sessions' = [sessions EXCEPT ![session_id].transcription_queue = <<>>]
            /\ delivered' = [delivered EXCEPT ![session_id] =
                                @ \o get_live_transcription(sessions[session_id]).new_segments]
    /\ UNCHANGED <<active_sessions, issued, now, in_flight>>
    /\ UNCHANGED bufVars

\* BasicRealtimeTranscriptionManager.get_session_info: the value returned
\* (the call changes nothing)
GetSessionInfoReturns(session_id) ==
    IF session_id \in DOMAIN sessions
    THEN get_status(sessions[session_id])
    ELSE [error |-> "Session not found"]

\* cleanup_session as it would be if it reported success for any id:
\* return True
CleanupSessionReturnsTrue(session_id) == TRUE

\* BasicRealtimeTranscriptionManager.cleanup_session: the value returned
CleanupSessionReturns(session_id) == session_id \in DOMAIN sessions

\* api/main.py cleanup_audio_session (DELETE /audio/session/{id}): the body
\* of the response
CleanupAudioSessionReturns(session_id) ==
    [ session_id |-> session_id,
      status     |-> IF CleanupSessionReturns(session_id)
                     THEN "cleaned_up" ELSE "not_found" ]

\* BasicRealtimeTranscriptionManager.cleanup_session
CleanupSession(session_id) ==
    /\ LoopIdle
    /\ active_sessions' = active_sessions \ {session_id}
    /\ sessions' = IF session_id \in DOMAIN sessions
                   THEN Del(sessions, session_id)
                   ELSE sessions
    /\ UNCHANGED <<issued, now, in_flight, delivered>>
    /\ UNCHANGED bufVars

\* cleanup_all_basic_sessions of the module: cleanup_session is a coroutine
\* function and is called without await, so each call of the loop makes a
\* coroutine object and runs none of cleanup_session's body
cleanup_all_basic_sessions ==
    /\ LoopIdle
    /\ never_awaited + Cardinality(active_sessions) <= MaxNeverAwaited
    /\ never_awaited' = never_awaited + Cardinality(active_sessions)
    /\ UNCHANGED <<svcVars, bufVars, exceptNeverAwaited>>

\* the clock advances
Tick ==
    /\ now < MaxTime
    /\ now' = now + 1
    /\ UNCHANGED <<sessions, active_sessions, issued, in_flight, delivered>>
    /\ UNCHANGED bufVars

SvcInit ==
    /\ sessions = <<>>
    /\ active_sessions = {}
    /\ issued = 0
    /\ now = 1
    /\ in_flight = NoCall
    /\ delivered = [s \in SessionIds |-> <<>>]

(***************************************************************************)
(* websocket_audio_stream of api/main.py: one handler coroutine per        *)
(* connection, bound to the session id of the path.  A handler runs on the *)
(* event loop of the endpoints above; between two of its steps below it is *)
(* suspended in websocket.receive() or websocket.send_json() and any other *)
(* coroutine may run.                                                      *)
(***************************************************************************)
\* the connections followed: SpecWs follows one, SpecWsPair two that are
\* bound to the same session
OneConn == {1}
Conns == {1, 2}

\* a connection nobody has opened yet
NoHandler ==
    [pc |-> "none", session_id |-> 0, alive |-> FALSE, out |-> <<>>, pushed |-> <<>>]

\* dict.get of a key the JSON object lacks, or holds with an empty value:
\* None or "", both false
Absent == ""

\* the audio_data strings of a control message: an empty one, base64 of some
\* blocks of audio, and one base64.b64decode raises on
AudioData ==
    {[valid |-> TRUE, blocks |-> n] : n \in 0..1} \cup {[valid |-> FALSE, blocks |-> 0]}

\* the text frames a client may send: not JSON at all, JSON that is not an
\* object, and JSON objects
TextFrames ==
    {[json |-> "invalid"], [json |-> "array"]}
       \cup [ json       : {"object"},
              action     : {Absent, "start_recording", "stop_recording",
                            "get_status", "audio_chunk", "bogus"},
              type       : {Absent, "stop_recording", "bogus"},
              audio_data : AudioData ]

\* action = control_data.get("action") or control_data.get("type")
action_of(control_data) ==
    IF control_data.action # Absent THEN control_data.action ELSE control_data.type

\* the dispatch of a text frame as it would be with the final else missing
\* and an unknown action handled like get_status
route_unknown_as_status(text) ==
    IF text.json = "invalid" THEN "invalid_json"
    ELSE IF text.json = "array" THEN "exception"
    ELSE IF action_of(text) \in {"start_recording", "stop_recording", "audio_chunk"}
    THEN action_of(text)
    ELSE "get_status"

\* the branch of the handler a text frame takes: json.loads raises, or
\* control_data.get raises (no dict), or the if/elif chain over action
route(text) ==
    IF text.json = "invalid" THEN "invalid_json"
    ELSE IF text.json = "array" THEN "exception"
    ELSE IF action_of(text) \in {"start_recording", "stop_recording",
                                 "get_status", "audio_chunk"}
    THEN action_of(text)
    ELSE "unknown"

\* if audio_data:
Truthy(audio_data) == ~(audio_data.valid /\ audio_data.blocks = 0)

\* base64.b64decode(audio_data), for the stream of session s
b64decode(s, audio_data) == Blocks(s, audio_data.blocks)

\* the handler of connection c goes to pc, having sent the events out since
\* it read the last frame
WsGoes(c, pc, out) ==
    ws' = [ws EXCEPT ![c].pc = pc, ![c].out = out]

\* websocket.accept() and the connection_established event.  The id of the
\* path is one create_session has returned, or one the client made up
\* (which uuid4 never returns later).
WsAccept(ids, c, session_id) ==
    /\ LoopIdle
    /\ ws[c].pc = "none"
    /\ session_id <= issued \/ session_id \notin ids
    /\ ws' = [ws EXCEPT ![c] = [pc |-> "receive", session_id |-> session_id,
                                alive |-> TRUE,
                                out |-> <<"connection_established">>,
                                pushed |-> <<>>]]
    /\ UNCHANGED <<svcVars, bufVars, exceptWs>>

\* a binary frame is received: process_audio_data, up to the point where it
\* returns or calls the collaborator
WsBinaryFrame(c, n) ==
    /\ ws[c].pc = "receive"
    /\ ws[c].alive
    /\ ProcessAudioData(ws[c].session_id, Blocks(ws[c].session_id, n))
    /\ WsGoes(c, "send_processed", <<>>)
    /\ UNCHANGED exceptWs

\* a text frame is received and handled, up to the point where the handler
\* is back in receive() or process_audio_data has returned or called the
\* collaborator
WsTextFrame(c, text) ==
    LET session_id == ws[c].session_id
    IN  /\ ws[c].pc = "receive"
        /\ ws[c].alive
        /\ LoopIdle
        /\ CASE route(text) = "start_recording" ->
                  /\ StartRecording(session_id)
                  /\ WsGoes(c, "receive", <<"recording_started">>)
             [] route(text) = "stop_recording" ->
                  /\ StopRecording(session_id)
                  /\ WsGoes(c, "receive", <<"recording_stopped">>)
             [] route(text) = "get_status" ->
                  /\ UNCHANGED <<svcVars, bufVars>>
                  /\ WsGoes(c, "receive", <<"session_status">>)
             [] route(text) = "audio_chunk" ->
                  IF ~Truthy(text.audio_data)
                  THEN /\ UNCHANGED <<svcVars, bufVars>>
                       /\ WsGoes(c, "receive", <<>>)
                  ELSE IF ~text.audio_data.valid
                  THEN /\ UNCHANGED <<svcVars, bufVars>>
                       /\ WsGoes(c, "receive", <<"error">>)
                  ELSE /\ ProcessAudioData(session_id,
                                           b64decode(session_id, text.audio_data))
                       /\ WsGoes(c, "send_processed", <<>>)
             [] OTHER ->
                  /\ UNCHANGED <<svcVars, bufVars>>
                  /\ WsGoes(c, "receive", <<"error">>)
        /\ UNCHANGED exceptWs

\* process_audio_data has returned: the audio_processed event
WsSendProcessed(c) ==
    /\ LoopIdle
    /\ ws[c].pc = "send_processed"
    /\ WsGoes(c, "check", Append(ws[c].out, "audio_processed"))
    /\ UNCHANGED <<svcVars, bufVars, exceptWs>>

\* the check for transcription updates after an audio frame, and the
\* transcription_update event when it yields new segments
WsCheck(c) ==
    LET update == GetTranscriptionUpdatesReturns(ws[c].session_id)
        new_segments == IF "new_segments" \in DOMAIN update
                        THEN update.new_segments ELSE <<>>
    IN  /\ ws[c].pc = "check"
        /\ GetTranscriptionUpdates(ws[c].session_id)
        /\ ws' = [ws EXCEPT ![c].pc = "receive",
                            ![c].out = IF new_segments # <<>>
                                       THEN Append(@, "transcription_update") ELSE @,
                            ![c].pushed = @ \o new_segments]
        /\ UNCHANGED exceptWs

\* the client goes away: from now on receive() raises and so may send_json()
WsClientGone(c) ==
    /\ ws[c].pc \notin {"none", "closed"}
    /\ ws[c].alive
    /\ ws' = [ws EXCEPT ![c].alive = FALSE]
    /\ UNCHANGED <<svcVars, bufVars, exceptWs>>

\* the handler's end as it would be with the finally block missing
WsFinallyNoCleanup(c) ==
    /\ LoopIdle
    /\ ws' = [ws EXCEPT ![c].pc = "closed"]
    /\ UNCHANGED <<svcVars, bufVars>>

\* the finally block: cleanup_session(session_id), and the handler ends
WsFinally(c) ==
    /\ CleanupSession(ws[c].session_id)
    /\ ws' = [ws EXCEPT ![c].pc = "closed"]

\* the client is gone: receive() or send_json() raises, the send of the
\* error event raises too, and the loop is left
WsExit(c) ==
    /\ ws[c].pc \in {"receive", "send_processed", "check"}
    /\ ~ws[c].alive
    /\ WsFinally(c)
    /\ UNCHANGED exceptWs

\* the server cancels the handler while it is suspended in receive() or
\* send_json()
WsCancel(c) ==
    /\ ws[c].pc \in {"receive", "send_processed"}
    /\ WsFinally(c)
    /\ UNCHANGED exceptWs

\* what a session's stream has been through, before any of it: the seconds
\* of audio received while recording (counted up to TranscribeSeconds),
\* whether a temporary WAV file could not be written, and the kinds of
\* reply the collaborator gave to the calls made for the session
Unheard == [received |-> 0, wav_failed |-> FALSE, replies |-> {}]

\* the kind of a reply: the call raised, or answered with text that is
\* empty, blank (white space only) or has something in it
Kind(reply) ==
    IF reply.raised THEN "raised"
    ELSE IF reply.text = <<>> THEN "empty"
    ELSE IF strip(reply.text) = <<>> THEN "blank"
    ELSE "text"

\* process_audio_data for the stream of session s, with the history kept
StreamAudio(s, n) ==
    /\ ProcessAudioData(s, Blocks(s, n))
    /\ heard' =
          IF s \notin DOMAIN sessions THEN heard
          ELSE [heard EXCEPT
                  ![s].received =
                      IF sessions[s].is_recording
                      THEN Min(@ + n, TranscribeSeconds) ELSE @,
                  ![s].wav_failed =
                      @ \/ (EnoughAudio(sessions'[s].audio_buffer)
                               /\ in_flight' = NoCall)]
    /\ UNCHANGED exceptHeard

\* process_audio_data: the value returned once the collaborator call it
\* made has ended with reply
ProcessAudioDataReturnsProcessed(reply) ==
    [ status               |-> "processed",
      transcription_result |->
          transcribe_audio_file(sessions[in_flight.session_id], reply).value,
      buffer_cleared       |-> TRUE ]

\* the collaborator call made for the stream ends, with the history kept
StreamReply(reply) ==
    /\ CollaboratorReturns(reply, MaxStreamSegments)
    /\ heard' = [heard EXCEPT ![in_flight.session_id].replies = @ \cup {Kind(reply)}]
    /\ UNCHANGED exceptHeard

(***************************************************************************)
(* RealtimeAudioService and RealtimeTranscriptionManager of                *)
(* realtime_audio_service.py, for one session.  The session's audio_buffer *)
(* is the AudioBuffer above, kept at the scale of the instance under test: *)
(* one sample per second, buffer_duration seconds.  process_audio_chunk    *)
(* and stop_recording are plain functions: the collaborator call each may  *)
(* make begins and ends within the one step.                               *)
(***************************************************************************)
\* self.chunk_duration, at the scale of the instance under test
chunk_duration == 1

\* "last_transcription_time": 0 of create_session.  time.time() counts from
\* 1970 and the clock of the model from the start of the run, which is more
\* than chunk_duration after 1970: on the model's clock 0 is this far back
Epoch == 0 - chunk_duration

\* the session dict of RealtimeAudioService.create_session, audio_buffer
\* apart; final_transcription is <<>> while the dict has no such key and
\* <<text>> once it has
RealtimeSession ==
    [ is_recording            |-> FALSE,
      recording_start_time    |-> None,
      transcription_queue     |-> <<>>,
      full_transcription      |-> <<>>,
      transcription_segments  |-> <<>>,
      last_transcription_time |-> Epoch,
      final_transcription     |-> <<>> ]

\* the audio_data a client hands to process_audio_chunk: the float32 samples
\* in it, and whether its length is a whole number of samples
RealtimeAudio(s) ==
    [samples : {Blocks(s, n) : n \in 0..MaxChunk}, whole : BOOLEAN]

TooShortNever(audio_data) == FALSE

\* len(audio_data) < self.sample_rate * 0.5
TooShort(audio_data) == Len(audio_data) * 2 < sample_rate

\* RealtimeAudioService._transcribe_audio_chunk, from read_last_seconds on:
\* the session afterwards
_transcribe_audio_chunk(session, audio_data, reply) ==
    IF TooShort(audio_data) \/ reply.raised \/ strip(reply.text) = <<>>
    THEN session
    ELSE LET segment == [ text       |-> strip(reply.text),
                          timestamp  |-> now,
                          confidence |-> "0.9",
                          duration   |-> Len(audio_data) \div sample_rate ]
         IN  [session EXCEPT
                 !.transcription_segments = Append(@, segment),
                 !.full_transcription = @ \o <<" ">> \o strip(reply.text),
                 !.transcription_queue = Append(@, segment)]

\* RealtimeAudioService._process_final_audio_chunk, from read_last_seconds
\* on: the session afterwards
_process_final_audio_chunk(session, audio_data, reply) ==
    IF TooShort(audio_data) \/ reply.raised \/ strip(reply.text) = <<>>
    THEN session
    ELSE [session EXCEPT !.final_transcription = <<strip(reply.text)>>]

\* RealtimeAudioService.get_final_transcription:
\* session.get("final_transcription", session["full_transcription"].strip())
realtime_get_final_transcription(session) ==
    IF session.final_transcription # <<>>
    THEN session.final_transcription[1]
    ELSE strip(session.full_transcription)

\* RealtimeTranscriptionManager.create_session
RealtimeCreateSession ==
    /\ issued < Cardinality(OneSession)
    /\ realtime' = [realtime EXCEPT
                        !.active_sessions = @ \cup {issued + 1},
                        !.sessions = Put(@, issued + 1, RealtimeSession)]
    /\ issued' = issued + 1
    /\ buffer' = [i \in 0..(buffer_size - 1) |-> 0]
    /\ write_index' = 0
    /\ is_full' = FALSE
    /\ written' = <<>>
    /\ UNCHANGED <<sessions, active_sessions, now, in_flight, delivered>>
    /\ UNCHANGED exceptRealtime

\* RealtimeTranscriptionManager.start_recording
RealtimeStartRecording(session_id) ==
    /\ realtime' =
          IF session_id \in DOMAIN realtime.sessions
          THEN [realtime EXCEPT !.sessions[session_id] =
                   [@ EXCEPT !.is_recording = TRUE, !.recording_start_time = now]]
          ELSE realtime
    /\ UNCHANGED <<svcVars, bufVars, exceptRealtime>>

\* RealtimeAudioService.process_audio_chunk
RealtimeProcessAudioChunk(session_id, audio_data, reply) ==
    /\ Len(written) + Len(audio_data.samples) <= MaxWritten
    /\ IF \/ session_id \notin DOMAIN realtime.sessions
          \/ ~realtime.sessions[session_id].is_recording
          \/ ~audio_data.whole
       THEN /\ realtime' = [realtime EXCEPT !.called = FALSE]
            /\ UNCHANGED bufVars
       ELSE /\ write(audio_data.samples)
            /\ LET session == realtime.sessions[session_id]
                   due == now - session.last_transcription_time >= chunk_duration
               IN  realtime' =
                     IF due
                     THEN [realtime EXCEPT
                             !.sessions[session_id] =
                                [_transcribe_audio_chunk(
                                     session, read_last_seconds(chunk_duration)', reply)
                                   EXCEPT !.last_transcription_time = now],
                             !.called = ~TooShort(read_last_seconds(chunk_duration)')]
                     ELSE [realtime EXCEPT !.called = FALSE]
    /\ session_id \in DOMAIN realtime.sessions =>
          Len(realtime'.sessions[session_id].transcription_segments)
             <= MaxRealtimeSegments
    /\ UNCHANGED <<svcVars, exceptRealtime>>

\* RealtimeTranscriptionManager.stop_recording
RealtimeStopRecording(session_id, reply) ==
    /\ realtime' =
          IF session_id \in DOMAIN realtime.sessions
          THEN [realtime EXCEPT !.sessions[session_id] =
                   _process_final_audio_chunk(
                       [@ EXCEPT !.is_recording = FALSE],
                       read_last_seconds(buffer_duration), reply)]
          ELSE realtime
    /\ UNCHANGED <<svcVars, bufVars, exceptRealtime>>

\* RealtimeTranscriptionManager.stop_recording: the value returned, in the
\* state the call leaves
RealtimeStopRecordingReturned(session_id) ==
    IF session_id \in DOMAIN realtime.sessions
    THEN [status |-> "recording_stopped", session_id |-> session_id,
          final_transcription |->
              realtime_get_final_transcription(realtime.sessions[session_id]),
          timestamp |-> now]
    ELSE [status |-> "error", message |-> "Failed to stop recording"]

\* RealtimeTranscriptionManager.get_transcription_updates
RealtimeGetTranscriptionUpdates(session_id) ==
    /\ realtime' =
          IF session_id \in DOMAIN realtime.sessions
          THEN [realtime EXCEPT !.sessions[session_id].transcription_queue = <<>>]
          ELSE realtime
    /\ UNCHANGED <<svcVars, bufVars, exceptRealtime>>

\* RealtimeTranscriptionManager.cleanup_session
RealtimeCleanupSession(session_id) ==
    /\ realtime' =
          [realtime EXCEPT
              !.active_sessions = @ \ {session_id},
              !.sessions = IF session_id \in DOMAIN @ THEN Del(@, session_id) ELSE @]
    /\ UNCHANGED <<svcVars, bufVars, exceptRealtime>>

\* cleanup_all_sessions of the module: as cleanup_all_basic_sessions, it
\* calls the coroutine function cleanup_session without await
cleanup_all_sessions ==
    /\ never_awaited + Cardinality(realtime.active_sessions) <= MaxNeverAwaited
    /\ never_awaited' = never_awaited + Cardinality(realtime.active_sessions)
    /\ UNCHANGED <<svcVars, bufVars, exceptNeverAwaited>>

\* the clock advances
RealtimeTick ==
    /\ Tick
    /\ UNCHANGED apiVars

(***************************************************************************)
(* RealtimeAudioTranscriber of realtime_websocket_service.py: one instance *)
(* whose handle_websocket_connection serves every connection.  A block of  *)
(* its audio_buffer is one second of audio and carries the connection that *)
(* sent it.  transcribe_audio_buffer has no await that yields, so the      *)
(* collaborator call begins and ends within the step that makes it; a      *)
(* handler yields to the other handlers at await websocket.send.           *)
(***************************************************************************)
\* self.min_audio_length, in seconds
min_audio_length == 2

\* a connection's handler: where it is (closed, at the receive of async for,
\* or inside the send of transcription_update or of final_transcription), and
\* history: the audio of the last transcription made on its behalf
NoConnection == [pc |-> "closed", transcribed |-> <<>>]

\* RealtimeAudioTranscriber.__init__
RealtimeAudioTranscriber ==
    [audio_buffer |-> <<>>, conn |-> [c \in Conns |-> NoConnection]]

\* RealtimeAudioTranscriber.transcribe_audio_buffer with a client: the value
\* returned, None and "" both as <<>> (the callers test its truth only)
transcribe_audio_buffer(audio_buffer, reply) ==
    IF audio_buffer = <<>> \/ reply.raised THEN <<>> ELSE strip(reply.text)

\* RealtimeAudioTranscriber.handle_websocket_connection up to the first
\* receive
TranscriberConnect(c) ==
    /\ transcriber.conn[c].pc = "closed"
    /\ transcriber' = [transcriber EXCEPT !.conn[c] = [NoConnection EXCEPT !.pc = "receive"]]
    /\ UNCHANGED <<svcVars, bufVars, exceptTranscriber>>

\* RealtimeAudioTranscriber.handle_audio_chunk for a chunk of n seconds, up
\* to the send of transcription_update if it makes one and to the next
\* receive otherwise
handle_audio_chunk(c, n, reply) ==
    /\ transcriber.conn[c].pc = "receive"
    /\ Len(transcriber.audio_buffer) + n <= MaxTranscriberBuffer
    /\ LET audio_buffer == transcriber.audio_buffer \o Blocks(c, n)
       IN  transcriber' =
             IF Len(audio_buffer) < min_audio_length
             THEN [transcriber EXCEPT !.audio_buffer = audio_buffer]
             ELSE IF transcribe_audio_buffer(audio_buffer, reply) # <<>>
             THEN [transcriber EXCEPT !.audio_buffer = audio_buffer,
                                      !.conn[c].transcribed = audio_buffer,
                                      !.conn[c].pc = "send_update"]
             ELSE [transcriber EXCEPT !.audio_buffer = <<>>,
                                      !.conn[c].transcribed = audio_buffer]
    /\ UNCHANGED <<svcVars, bufVars, exceptTranscriber>>

\* the send of transcription_update or final_transcription completes:
\* self.audio_buffer.clear(), then the acknowledgement and the next receive
TranscriberSent(c) ==
    /\ transcriber.conn[c].pc \in {"send_update", "send_final"}
    /\ transcriber' = [transcriber EXCEPT !.audio_buffer = <<>>,
                                          !.conn[c].pc = "receive"]
    /\ UNCHANGED <<svcVars, bufVars, exceptTranscriber>>

\* RealtimeAudioTranscriber.start_recording_session
start_recording_session(c) ==
    /\ transcriber.conn[c].pc = "receive"
    /\ transcriber' = [transcriber EXCEPT !.audio_buffer = <<>>]
    /\ UNCHANGED <<svcVars, bufVars, exceptTranscriber>>

\* RealtimeAudioTranscriber.stop_recording_session, up to the send of
\* final_transcription if it makes one and to the next receive otherwise
stop_recording_session(c, reply) ==
    /\ transcriber.conn[c].pc = "receive"
    /\ LET audio_buffer == transcriber.audio_buffer
       IN  transcriber' =
             IF audio_buffer = <<>>
             THEN transcriber
             ELSE IF transcribe_audio_buffer(audio_buffer, reply) # <<>>
             THEN [transcriber EXCEPT !.conn[c].transcribed = audio_buffer,
                                      !.conn[c].pc = "send_final"]
             ELSE [transcriber EXCEPT !.audio_buffer = <<>>,
                                      !.conn[c].transcribed = audio_buffer]
    /\ UNCHANGED <<svcVars, bufVars, exceptTranscriber>>

\* RealtimeAudioTranscriber.get_current_transcription
get_current_transcription(c) ==
    /\ transcriber.conn[c].pc = "receive"
    /\ transcriber' =
          IF transcriber.audio_buffer = <<>>
          THEN transcriber
          ELSE [transcriber EXCEPT !.conn[c].transcribed = transcriber.audio_buffer]
    /\ UNCHANGED <<svcVars, bufVars, exceptTranscriber>>

\* the client closes connection c: async for ends, or the send the handler
\* is in raises ConnectionClosed and the handler ends without its clear()
TranscriberClosed(c) ==
    /\ transcriber.conn[c].pc # "closed"
    /\ transcriber' = [transcriber EXCEPT !.conn[c].pc = "closed"]
    /\ UNCHANGED <<svcVars, bufVars, exceptTranscriber>>

ApiInit ==
    /\ ws = [c \in Conns |-> NoHandler]
    /\ never_awaited = 0
    /\ heard = [s \in SessionIds |-> Unheard]
    /\ realtime = [active_sessions |-> {}, sessions |-> <<>>, called |-> FALSE]
    /\ transcriber = RealtimeAudioTranscriber

\* a client writes one chunk of audio
BufWrite ==
    /\ \E audio_data \in SeqsUpTo(Samples, MaxWriteLen) :
        /\ Len(written) + Len(audio_data) <= MaxWritten
        /\ write(audio_data)
    /\ UNCHANGED <<svcVars, apiVars>>

Init == BufInit /\ SvcInit /\ ApiInit

NextBuf == BufWrite

SpecBuf == Init /\ [][NextBuf]_vars

Next ==
    \/ CreateSession(OneSession) /\ UNCHANGED apiVars
    \/ \E s \in OneSession : StartRecording(s) /\ UNCHANGED apiVars
    \/ \E s \in OneSession : StopRecording(s) /\ UNCHANGED apiVars
    \/ \E s \in OneSession, n \in 0..MaxChunk :
          ProcessAudioData(s, Blocks(s, n)) /\ UNCHANGED apiVars
    \/ \E s \in OneSession :
          TranscribeUploadedAudio(s, _create_temp_wav_from_buffer(Blocks(s, 1)))
             /\ UNCHANGED apiVars
    \/ \E reply \in Replies : CollaboratorReturns(reply, MaxSegments) /\ UNCHANGED apiVars
    \/ \E s \in OneSession : GetTranscriptionUpdates(s) /\ UNCHANGED apiVars
    \/ \E s \in OneSession : CleanupSession(s) /\ UNCHANGED apiVars
    \/ Tick /\ UNCHANGED apiVars

Spec == Init /\ [][Next]_vars

\* what the event loop does by itself: it serves the requests that arrive
Serves ==
    \/ CreateSession(OneSession) /\ UNCHANGED apiVars
    \/ \E s \in OneSession : StartRecording(s) /\ UNCHANGED apiVars
    \/ \E s \in OneSession : StopRecording(s) /\ UNCHANGED apiVars
    \/ \E s \in OneSession, n \in 0..MaxChunk :
          ProcessAudioData(s, Blocks(s, n)) /\ UNCHANGED apiVars
    \/ \E s \in OneSession :
          TranscribeUploadedAudio(s, _create_temp_wav_from_buffer(Blocks(s, 1)))
             /\ UNCHANGED apiVars
    \/ \E s \in OneSession : GetTranscriptionUpdates(s) /\ UNCHANGED apiVars
    \/ \E s \in OneSession : CleanupSession(s) /\ UNCHANGED apiVars

\* Spec with the scheduling of the program: the event loop keeps serving
\* while it can and the clock keeps advancing.  transcriptions.create is
\* called with no timeout argument and runs under no wait_for, so nothing in
\* the program obliges the call in progress to end: no fairness on
\* CollaboratorReturns
SpecFair ==
    /\ Init /\ [][Next]_vars
    /\ WF_vars(Serves)
    /\ WF_vars(Tick /\ UNCHANGED apiVars)

NextPair ==
    \/ CreateSession(TwoSessions) /\ UNCHANGED apiVars
    \/ \E s \in TwoSessions : StartRecording(s) /\ UNCHANGED apiVars
    \/ \E s \in TwoSessions : StopRecording(s) /\ UNCHANGED apiVars
    \/ \E s \in TwoSessions, n \in 0..MaxChunk :
          ProcessAudioData(s, Blocks(s, n)) /\ UNCHANGED apiVars
    \/ \E s \in TwoSessions :
          TranscribeUploadedAudio(s, _create_temp_wav_from_buffer(Blocks(s, 1)))
             /\ UNCHANGED apiVars
    \/ \E reply \in Replies :
          CollaboratorReturns(reply, MaxPairSegments) /\ UNCHANGED apiVars
    \/ \E s \in TwoSessions : GetTranscriptionUpdates(s) /\ UNCHANGED apiVars
    \/ \E s \in TwoSessions : CleanupSession(s) /\ UNCHANGED apiVars

SpecPair == Init /\ [][NextPair]_vars

\* the endpoints and one WebSocket connection, within one reading of the clock
NextWs ==
    \/ CreateSession(OneSession) /\ UNCHANGED apiVars
    \/ \E s \in OneSession : StartRecording(s) /\ UNCHANGED apiVars
    \/ \E s \in OneSession : StopRecording(s) /\ UNCHANGED apiVars
    \/ \E reply \in Replies : CollaboratorReturns(reply, MaxWsSegments) /\ UNCHANGED apiVars
    \/ \E s \in OneSession : GetTranscriptionUpdates(s) /\ UNCHANGED apiVars
    \/ \E s \in OneSession : CleanupSession(s) /\ UNCHANGED apiVars
    \/ \E c \in OneConn, s \in TwoSessions : WsAccept(OneSession, c, s)
    \/ \E c \in OneConn, n \in 0..MaxChunk : WsBinaryFrame(c, n)
    \/ \E c \in OneConn, text \in TextFrames : WsTextFrame(c, text)
    \/ \E c \in OneConn : WsSendProcessed(c)
    \/ \E c \in OneConn : WsCheck(c)
    \/ \E c \in OneConn : WsClientGone(c)
    \/ \E c \in OneConn : WsExit(c)
    \/ \E c \in OneConn : WsCancel(c)

SpecWs == Init /\ [][NextWs]_vars

\* two WebSocket connections to one session, with no DELETE request and no
\* shutdown, within one reading of the clock
NextWsPair ==
    \/ CreateSession(OneSession) /\ UNCHANGED apiVars
    \/ \E reply \in Replies : CollaboratorReturns(reply, MaxWsSegments) /\ UNCHANGED apiVars
    \/ \E c \in Conns, s \in OneSession : WsAccept(OneSession, c, s)
    \/ \E c \in Conns, n \in 0..MaxChunk : WsBinaryFrame(c, n)
    \/ \E c \in Conns : WsSendProcessed(c)
    \/ \E c \in Conns : WsCheck(c)
    \/ \E c \in Conns : WsClientGone(c)
    \/ \E c \in Conns : WsExit(c)

SpecWsPair == Init /\ [][NextWsPair]_vars

\* the manager, its service and the module's sweep as a program that imports
\* basic_realtime_audio calls them, within one reading of the clock
NextLib ==
    \/ CreateSession(TwoSessions) /\ UNCHANGED apiVars
    \/ \E s \in TwoSessions : ServiceCreateSession(s) /\ UNCHANGED apiVars
    \/ \E s \in TwoSessions : StartRecording(s) /\ UNCHANGED apiVars
    \/ \E s \in TwoSessions : StopRecording(s) /\ UNCHANGED apiVars
    \/ \E s \in TwoSessions, n \in 0..MaxChunk :
          ProcessAudioData(s, Blocks(s, n)) /\ UNCHANGED apiVars
    \/ \E reply \in Replies :
          CollaboratorReturns(reply, MaxLibSegments) /\ UNCHANGED apiVars
    \/ \E s \in TwoSessions : CleanupSession(s) /\ UNCHANGED apiVars
    \/ cleanup_all_basic_sessions

SpecLib == Init /\ [][NextLib]_vars

\* one session and the stream of audio fed to it, within one reading of the
\* clock
NextStream ==
    \/ CreateSession(OneSession) /\ UNCHANGED apiVars
    \/ \E s \in OneSession : StartRecording(s) /\ UNCHANGED apiVars
    \/ \E s \in OneSession : StopRecording(s) /\ UNCHANGED apiVars
    \/ \E s \in OneSession, n \in 0..MaxChunk : StreamAudio(s, n)
    \/ \E reply \in Replies : StreamReply(reply)

SpecStream == Init /\ [][NextStream]_vars

\* one session of the RealtimeTranscriptionManager through its whole life
NextRealtime ==
    \/ RealtimeCreateSession
    \/ \E s \in OneSession : RealtimeStartRecording(s)
    \/ \E s \in OneSession : \E audio_data \in RealtimeAudio(s), reply \in Replies :
          RealtimeProcessAudioChunk(s, audio_data, reply)
    \/ \E s \in OneSession, reply \in Replies : RealtimeStopRecording(s, reply)
    \/ \E s \in OneSession : RealtimeGetTranscriptionUpdates(s)
    \/ \E s \in OneSession : RealtimeCleanupSession(s)
    \/ cleanup_all_sessions
    \/ RealtimeTick

SpecRealtime == Init /\ [][NextRealtime]_vars

\* RealtimeTranscriptionManager as a client that only records drives it: no
\* polling for updates, no shutdown
NextRealtimeRecording ==
    \/ RealtimeCreateSession
    \/ \E s \in OneSession : RealtimeStartRecording(s)
    \/ \E s \in OneSession : \E audio_data \in RealtimeAudio(s), reply \in Replies :
          RealtimeProcessAudioChunk(s, audio_data, reply)
    \/ \E s \in OneSession, reply \in Replies : RealtimeStopRecording(s, reply)
    \/ \E s \in OneSession : RealtimeCleanupSession(s)
    \/ RealtimeTick

SpecRealtimeRecording == Init /\ [][NextRealtimeRecording]_vars

NextTranscriber ==
    \/ \E c \in Conns : TranscriberConnect(c)
    \/ \E c \in Conns, n \in 0..MaxChunk, reply \in Replies : handle_audio_chunk(c, n, reply)
    \/ \E c \in Conns : TranscriberSent(c)
    \/ \E c \in Conns : start_recording_session(c)
    \/ \E c \in Conns, reply \in Replies : stop_recording_session(c, reply)
    \/ \E c \in Conns : get_current_transcription(c)
    \/ \E c \in Conns : TranscriberClosed(c)

SpecTranscriber == Init /\ [][NextTranscriber]_vars

(***************************************************************************)
(* Claims                                                                  *)
(***************************************************************************)
\* the texts of a segment log, in log order
Texts(segments) == [i \in 1..Len(segments) |-> segments[i].text]

\* the session exists and start_recording was never called on it
NeverStarted(s) ==
    /\ s \in DOMAIN sessions
    /\ ~sessions[s].is_recording
    /\ sessions[s].recording_start_time = None

\* the session exists, it was started, and stop_recording has returned for
\* it with no start_recording since
Stopped(s) ==
    /\ s \in DOMAIN sessions
    /\ ~sessions[s].is_recording
    /\ sessions[s].recording_start_time # None
    /\ sessions[s].recording_end_time # None

\* C1: once more than buffer_size samples have been written, in any split,
\* read_last_seconds(buffer_duration) returns the most recent buffer_size
\* samples written, oldest first.
C1_ReadLastIsMostRecent ==
    Len(written) > buffer_size =>
        read_last_seconds(buffer_duration) = LastN(written, buffer_size)

\* C2: in every reachable state the full_transcription reported for a
\* session (by get_status and by get_live_transcription) is the texts of
\* its transcription_segments, in log order, joined by single spaces and
\* stripped.
C2_TranscriptIsJoinOfSegments ==
    \A s \in DOMAIN sessions :
        LET expected == strip(join(Texts(sessions[s].transcription_segments), <<" ">>))
        IN  /\ GetSessionInfoReturns(s).full_transcription = expected
            /\ GetTranscriptionUpdatesReturns(s).full_transcription = expected

\* a session whose log holds two segments of different texts
C2_Witness ==
    \E s \in DOMAIN sessions :
        /\ Len(sessions[s].transcription_segments) = 2
        /\ sessions[s].transcription_segments[1].text
              # sessions[s].transcription_segments[2].text

\* C3: stop_recording on a session that was never started returns an error
\* result and leaves every field of the session unchanged.
C3_StopBeforeStartRejected ==
    [][\A s \in OneSession :
          (NeverStarted(s) /\ StopRecording(s)) =>
              /\ StopRecordingReturns(s).status = "error"
              /\ sessions'[s] = sessions[s]]_vars

\* C4: start_recording on a session that is already recording returns an
\* error result, not recording_started, and changes nothing of the session.
C4_StartWhileRecordingRejected ==
    [][\A s \in OneSession :
          (s \in DOMAIN sessions /\ sessions[s].is_recording /\ StartRecording(s)) =>
              /\ StartRecordingReturns(s).status = "error"
              /\ sessions'[s] = sessions[s]]_vars

\* C5: process_audio_data on an existing session that is not recording is
\* rejected with an error result, and changes neither the audio buffer nor
\* the segment log.
C5_AppendWhileNotRecordingRejected ==
    [][\A s \in OneSession, n \in 0..MaxChunk :
          (/\ s \in DOMAIN sessions
           /\ ~sessions[s].is_recording
           /\ ProcessAudioData(s, Blocks(s, n))) =>
              /\ "error" \in DOMAIN ProcessAudioDataReturns(s, Blocks(s, n))
              /\ sessions'[s].audio_buffer = sessions[s].audio_buffer
              /\ sessions'[s].transcription_segments
                    = sessions[s].transcription_segments]_vars

\* C6: when stop_recording returns for a recording session, the audio
\* appended since the last transcription call has been handed to the
\* collaborator: none of it is left in the session's buffer.
C6_StopFlushesBufferedAudio ==
    [][\A s \in OneSession :
          (s \in DOMAIN sessions /\ sessions[s].is_recording /\ StopRecording(s)) =>
              sessions'[s].audio_buffer = <<>>]_vars

\* C7: once stop_recording has returned for a session, and until the next
\* start_recording, no step appends a segment to its log or changes its
\* transcript.
C7_NoSegmentAfterStop ==
    [][\A s \in OneSession :
          (Stopped(s) /\ s \in DOMAIN sessions' /\ ~sessions'[s].is_recording) =>
              /\ sessions'[s].transcription_segments
                    = sessions[s].transcription_segments
              /\ sessions'[s].full_transcription = sessions[s].full_transcription]_vars

\* C8: while the collaborator call made for one session is in progress, an
\* audio frame for any session (the same one or another) can still be
\* written to its buffer.
C8_IngestionNotBlocked ==
    in_flight # NoCall =>
        \A s \in DOMAIN sessions :
            Len(sessions[s].audio_buffer) < MaxBuffer =>
                ENABLED ProcessAudioData(s, Blocks(s, 1))

\* what the model keeps of session s: its entry in the table (absent when
\* it has none) and the segments delivered to its pollers
Kept(table, history, s) ==
    <<IF s \in DOMAIN table THEN <<table[s]>> ELSE <<>>, history[s]>>

\* this step is a call addressed to session a
AddressedTo(a) ==
    \/ StartRecording(a)
    \/ StopRecording(a)
    \/ \E n \in 0..MaxChunk : ProcessAudioData(a, Blocks(a, n))
    \/ TranscribeUploadedAudio(a, _create_temp_wav_from_buffer(Blocks(a, 1)))
    \/ in_flight.session_id = a /\ \E reply \in Replies :
                                      CollaboratorReturns(reply, MaxPairSegments)
    \/ GetTranscriptionUpdates(a)
    \/ CleanupSession(a)

\* everything session s holds came from its own stream
OwnOnly(s) ==
    /\ \A i \in DOMAIN sessions[s].audio_buffer : sessions[s].audio_buffer[i] = s
    /\ \A i \in DOMAIN sessions[s].transcription_segments :
          sessions[s].transcription_segments[i].session_id = s
    /\ \A i \in DOMAIN sessions[s].transcription_queue :
          sessions[s].transcription_queue[i].session_id = s
    /\ \A i \in DOMAIN delivered[s] : delivered[s][i].session_id = s

\* C9: with two sessions side by side, the audio buffer, segment log, queue
\* and deliveries of a session hold only what came from its own stream, the
\* file in a collaborator call made for a session holds only that session's
\* audio, and a call addressed to one session changes nothing of the other.
C9_SessionsIsolated ==
    /\ [](\A s \in DOMAIN sessions : OwnOnly(s))
    /\ [](in_flight # NoCall =>
             \A i \in DOMAIN in_flight.audio.data :
                 in_flight.audio.data[i] = in_flight.session_id)
    /\ [][\A a, b \in TwoSessions :
             (a # b /\ AddressedTo(a)) =>
                 Kept(sessions', delivered', b) = Kept(sessions, delivered, b)]_vars

\* both sessions are recording with audio buffered, one has a segment in its
\* log and a collaborator call for the other is in progress
C9_Witness ==
    /\ DOMAIN sessions = TwoSessions
    /\ \A s \in TwoSessions : sessions[s].is_recording
    /\ Len(sessions[1].transcription_segments) = 1
    /\ sessions[1].audio_buffer # <<>>
    /\ in_flight.session_id = 2
    /\ in_flight.op = "process_audio_data"

\* C10: the new_segments lists returned so far for a session, concatenated,
\* followed by what the next poll would return, are exactly the session's
\* segment log: every segment is delivered once, in log order, and a poll
\* with nothing new returns the empty list.
C10_DeliveredOnceInOrder ==
    \A s \in DOMAIN sessions :
        /\ delivered[s] \o GetTranscriptionUpdatesReturns(s).new_segments
              = sessions[s].transcription_segments
        /\ (delivered[s] = sessions[s].transcription_segments
              => GetTranscriptionUpdatesReturns(s).new_segments = <<>>)

\* one segment has been delivered by a poll and a later one is waiting
C10_Witness ==
    \E s \in DOMAIN sessions :
        /\ Len(delivered[s]) = 1
        /\ Len(sessions[s].transcription_queue) = 1

\* C11: on a WebSocket connection, every audio frame whose processing
\* appends a segment to the bound session is followed, before the handler
\* reads the next frame, by a transcription_update event on that connection
\* carrying the segment, whatever HTTP polls come in between.  The frames of
\* the connection followed are the only source of the session's segments, so
\* whenever its handler is back in receive() the segments pushed on the
\* connection are the session's segment log.
C11_EverySegmentPushed ==
    \A c \in Conns :
        (ws[c].pc = "receive" /\ ws[c].session_id \in DOMAIN sessions) =>
            ws[c].pushed = sessions[ws[c].session_id].transcription_segments

\* C12: whenever the WebSocket handler bound to a session id has ended, for
\* whatever reason, that id is in neither the manager's active set nor the
\* service's session table.
C12_EndedHandlerLeavesNoSession ==
    \A c \in Conns :
        ws[c].pc = "closed" =>
            /\ ws[c].session_id \notin active_sessions
            /\ ws[c].session_id \notin DOMAIN sessions

\* a handler has ended after its client went away, bound to a session that
\* create_session had made and that it had pushed a segment of
C12_Witness ==
    \E c \in Conns :
        /\ ws[c].pc = "closed"
        /\ ~ws[c].alive
        /\ ws[c].session_id <= issued
        /\ ws[c].pushed # <<>>

\* the text frame is not valid JSON, or not a JSON object, or the action it
\* names is none of the four
BadFrame(text) ==
    \/ text.json # "object"
    \/ action_of(text) \notin {"start_recording", "stop_recording",
                               "get_status", "audio_chunk"}

C13_CleanupIdempotent ==
    /\ [][\A s \in SessionIds :
            (CleanupSession(s) /\ s \in DOMAIN sessions) =>
                /\ CleanupAudioSessionReturns(s).status = "cleaned_up"
                /\ s \notin DOMAIN sessions'
                /\ s \notin active_sessions'
                /\ CleanupAudioSessionReturns(s)'.status = "not_found"]_vars
    /\ [][\A s \in SessionIds :
            (s <= issued /\ s \notin DOMAIN sessions) =>
                /\ s \notin DOMAIN sessions'
                /\ CleanupAudioSessionReturns(s)'.status = "not_found"]_vars
    /\ [][\A s \in SessionIds :
            (CleanupSession(s) /\ s \notin DOMAIN sessions) =>
                /\ CleanupAudioSessionReturns(s).status = "not_found"
                /\ UNCHANGED vars]_vars

\* a session that took audio in, was transcribed and polled, and is gone
C13_Witness ==
    /\ issued = 1
    /\ 1 \notin DOMAIN sessions
    /\ 1 \notin active_sessions
    /\ delivered[1] # <<>>
    /\ CleanupAudioSessionReturns(1).status = "not_found"

\* the result tells the caller that the request failed
IsErrorResult(result) ==
    IF "error" \in DOMAIN result THEN TRUE ELSE result.status = "error"

\* this step is a start, stop, poll or append request addressed to id a
RequestTo(a) ==
    \/ StartRecording(a)
    \/ StopRecording(a)
    \/ GetTranscriptionUpdates(a)
    \/ \E n \in 0..MaxChunk : ProcessAudioData(a, Blocks(a, n))

(***************************************************************************)
(* C16.  For an id that is not in the session table, start, stop, status,  *)
(* poll and append each return an error result, and a step that is one of  *)
(* these requests puts no session under that id, starts no collaborator    *)
(* call and leaves every session, active_sessions and every delivery as    *)
(* they were.                                                              *)
(***************************************************************************)
C16_UnknownIdRejected ==
    /\ [](\A a \in TwoSessions : a \notin DOMAIN sessions =>
             /\ IsErrorResult(StartRecordingReturns(a))
             /\ IsErrorResult(StopRecordingReturns(a))
             /\ IsErrorResult(GetSessionInfoReturns(a))
             /\ IsErrorResult(GetTranscriptionUpdatesReturns(a))
             /\ \A n \in 0..MaxChunk :
                   IsErrorResult(ProcessAudioDataReturns(a, Blocks(a, n))))
    /\ [][\A a \in TwoSessions :
             (a \notin DOMAIN sessions /\ RequestTo(a)) =>
                 /\ sessions' = sessions
                 /\ active_sessions' = active_sessions
                 /\ delivered' = delivered
                 /\ in_flight' = in_flight]_vars

\* the first session was removed; the second is recording, holds audio and
\* has a segment in its log
C16_Witness ==
    /\ issued = 2
    /\ DOMAIN sessions = {2}
    /\ sessions[2].is_recording
    /\ sessions[2].audio_buffer # <<>>
    /\ Len(sessions[2].transcription_segments) = 1
    /\ IsErrorResult(StartRecordingReturns(1))

(***************************************************************************)
(* C15.  When cleanup_all_basic_sessions returns, active_sessions and the  *)
(* session table are both empty.                                           *)
(***************************************************************************)
C15_SweepLeavesNoSession ==
    [][cleanup_all_basic_sessions =>
          /\ active_sessions' = {}
          /\ DOMAIN sessions' = {}]_vars

\* this step creates a session, through the manager or through the service
CreateStep ==
    \/ CreateSession(TwoSessions)
    \/ \E session_id \in TwoSessions : ServiceCreateSession(session_id)

(***************************************************************************)
(* C17.  A create step leaves every session of the table in the table and  *)
(* as it was, and the session it adds is new: not recording, with an empty *)
(* segment log and an empty transcript.                                    *)
(***************************************************************************)
C17_CreateNeverReplaces ==
    [][CreateStep =>
          /\ \A s \in DOMAIN sessions :
                s \in DOMAIN sessions' /\ sessions'[s] = sessions[s]
          /\ \A s \in DOMAIN sessions' \ DOMAIN sessions :
                sessions'[s] = BasicAudioSession(s)]_vars

(***************************************************************************)
(* C14.  When the collaborator call made by an append raises, the append   *)
(* returns a 'processed' result, the session's is_recording flag, segment  *)
(* log and transcript are as before, and the next append is accepted.  So  *)
(* a session whose collaborator calls all raised has no segment, and stop  *)
(* returns an empty final_transcription for it.                            *)
(***************************************************************************)
C14_CollaboratorFailureAbsorbed ==
    /\ [][\A reply \in Replies, s \in SessionIds :
             (reply.raised /\ s = in_flight.session_id /\ StreamReply(reply)) =>
                 /\ ~IsErrorResult(ProcessAudioDataReturnsProcessed(reply))
                 /\ sessions'[s].is_recording = sessions[s].is_recording
                 /\ sessions'[s].transcription_segments
                        = sessions[s].transcription_segments
                 /\ sessions'[s].full_transcription
                        = sessions[s].full_transcription
                 /\ in_flight' = NoCall
                 /\ ~IsErrorResult(ProcessAudioDataReturns(s, Blocks(s, 1))')]_vars
    /\ [](\A s \in DOMAIN sessions :
             heard[s].replies \subseteq {"raised"} =>
                 /\ GetSessionInfoReturns(s).segment_count = 0
                 /\ StopRecordingReturns(s).final_transcription = <<>>)

\* a session that took three seconds of audio while recording, whose one
\* collaborator call raised, took more audio afterwards and was stopped
C14_Witness ==
    /\ Stopped(1)
    /\ heard[1].received = TranscribeSeconds
    /\ heard[1].replies = {"raised"}
    /\ sessions[1].audio_buffer # <<>>
    /\ sessions[1].transcription_segments = <<>>

C20_FinalIsJoinedLog ==
    \A s \in DOMAIN realtime.sessions :
        ~realtime.sessions[s].is_recording =>
            /\ RealtimeStopRecordingReturned(s).status = "recording_stopped"
            /\ RealtimeStopRecordingReturned(s).final_transcription
                  = strip(join(Texts(realtime.sessions[s].transcription_segments),
                               <<" ">>))

(***************************************************************************)
(* C22.  is_full is true exactly when the samples written so far, in       *)
(* total, are at least buffer_size; a buffer filled exactly to its last    *)
(* slot is full.                                                           *)
(***************************************************************************)
C22_FullOnceCapacityWritten ==
    is_full <=> Len(written) >= buffer_size

(***************************************************************************)
(* C23.  After any sequence of writes, of length zero and of length        *)
(* buffer_size or more included, write_index is in 0..buffer_size-1 and    *)
(* the backing storage has exactly the slots 0..buffer_size-1.             *)
(***************************************************************************)
C23_CursorInRange ==
    /\ write_index \in 0..(buffer_size - 1)
    /\ DOMAIN buffer = 0..(buffer_size - 1)

\* more than a buffer of samples was written, the writes wrapped, and the
\* last one ended exactly on the last slot: the cursor is back at 0
C23_Witness ==
    /\ write_index = 0
    /\ is_full
    /\ Len(written) > buffer_size + 1
    /\ buffer[buffer_size - 1] = written[Len(written)]

(***************************************************************************)
(* C28.  After any sequence of operations of the                           *)
(* BasicRealtimeTranscriptionManager, in any interleaving, active_sessions *)
(* is the set of keys of the session table of its audio_service.           *)
(***************************************************************************)
C28_ActiveIsTableKeys ==
    active_sessions = DOMAIN sessions

\* two sessions were created, the first was removed, and a collaborator
\* call for the second is in progress
C28_Witness ==
    /\ issued = 2
    /\ active_sessions = {2}
    /\ in_flight.session_id = 2

(***************************************************************************)
(* C29.  Under a clock that never goes back, the recording_duration that   *)
(* get_status reports for a session is never negative, and while the       *)
(* session is recording it is the current time minus the time of the most  *)
(* recent start.                                                           *)
(***************************************************************************)
C29_DurationNeverNegative ==
    \A s \in DOMAIN sessions :
        /\ GetSessionInfoReturns(s).recording_duration >= 0
        /\ sessions[s].is_recording =>
              GetSessionInfoReturns(s).recording_duration
                 = now - sessions[s].recording_start_time

\* session id s was in the table and has been removed from it
Removed(s) == s <= issued /\ s \notin DOMAIN sessions

\* the error result the service gives for an id it does not know
SessionNotFound == [error |-> "Session not found"]

(***************************************************************************)
(* C26 as stated.  For a session that has been removed, append, poll,      *)
(* status, start, stop and a second cleanup each return the 'Session not   *)
(* found' error result.                                                    *)
(***************************************************************************)
C26_RemovedAnswersSessionNotFound ==
    \A s \in SessionIds : Removed(s) =>
        /\ \A n \in 0..MaxChunk :
              ProcessAudioDataReturns(s, Blocks(s, n)) = SessionNotFound
        /\ GetTranscriptionUpdatesReturns(s) = SessionNotFound
        /\ GetSessionInfoReturns(s) = SessionNotFound
        /\ StartRecordingReturns(s) = SessionNotFound
        /\ StopRecordingReturns(s) = SessionNotFound
        /\ CleanupAudioSessionReturns(s) = SessionNotFound

(***************************************************************************)
(* C26.  For a session that has been removed, append, poll and status      *)
(* return the 'Session not found' error result, start and stop return a    *)
(* result of status 'error', and a second cleanup answers 'not_found'.     *)
(* No step puts the session back into the table or into active_sessions,   *)
(* and a request addressed to it changes nothing of the manager.  A        *)
(* removal never takes a session away from under a collaborator call in    *)
(* progress for it: the call holds the event loop until it is over.        *)
(***************************************************************************)
C26_RemovedSessionIsNoOp ==
    /\ [](\A s \in SessionIds : Removed(s) =>
             /\ \A n \in 0..MaxChunk :
                   ProcessAudioDataReturns(s, Blocks(s, n)) = SessionNotFound
             /\ GetTranscriptionUpdatesReturns(s) = SessionNotFound
             /\ GetSessionInfoReturns(s) = SessionNotFound
             /\ StartRecordingReturns(s).status = "error"
             /\ StopRecordingReturns(s).status = "error"
             /\ CleanupAudioSessionReturns(s).status = "not_found")
    /\ [](in_flight # NoCall => in_flight.session_id \in DOMAIN sessions)
    /\ [][\A s \in SessionIds : Removed(s) =>
             /\ s \notin DOMAIN sessions'
             /\ s \notin active_sessions'
             /\ (RequestTo(s) \/ CleanupSession(s)) =>
                   UNCHANGED <<sessions, active_sessions, in_flight, delivered>>]_vars

\* the session was removed while its connection was open, and the handler
\* has taken a binary frame for it since
C26_Witness ==
    \E c \in Conns :
        /\ ws[c].pc = "send_processed"
        /\ ws[c].alive
        /\ Removed(ws[c].session_id)
        /\ Len(ws[c].pushed) >= 1

\* connection c is open: its handler is running and its client is there
Open(c) == ws[c].pc \notin {"none", "closed"} /\ ws[c].alive

(***************************************************************************)
(* C30.  With no DELETE and no shutdown requested, a session that is in    *)
(* the table with a WebSocket connection open on it is still in the table  *)
(* after any step that leaves that connection open: the closing of another *)
(* connection does not remove it.                                          *)
(***************************************************************************)
C30_OpenConnectionKeepsSession ==
    [][\A c \in Conns :
          (Open(c) /\ ws[c].session_id \in DOMAIN sessions /\ Open(c)') =>
              ws[c].session_id \in DOMAIN sessions']_vars

\* int.from_bytes(b, 'little')
RECURSIVE from_bytes(_)
from_bytes(b) == IF b = <<>> THEN 0 ELSE Head(b) + 256 * from_bytes(Tail(b))

\* the field of a WAV header that starts at byte offset lo and is n bytes long
Field(header, lo, n) == from_bytes(SubSeq(header, lo + 1, lo + n))

(***************************************************************************)
(* C21.  The WAV file handed to the collaborator for an audio buffer of n  *)
(* bytes has a 44-byte header, so 44 + n bytes in all; read back at the    *)
(* offsets of the format, ChunkSize is n + 36, Subchunk2Size is n, and the *)
(* fmt chunk says PCM, 1 channel, 16000 Hz, byte rate 32000, block align   *)
(* 2, 16 bits; the payload is the session's audio buffer.                  *)
(***************************************************************************)
C21_WavHeaderMatchesPayload ==
    in_flight.op = "process_audio_data" =>
        LET header == wav_header(in_flight.audio)
            n == ByteLen(sessions[in_flight.session_id].audio_buffer)
        IN  /\ Len(header) + ByteLen(in_flight.audio.data) = 44 + n
            /\ SubSeq(header, 1, 4) = TagBytes("RIFF")
            /\ Field(header, 4, 4) = n + 36
            /\ SubSeq(header, 9, 16) = TagBytes("WAVE") \o TagBytes("fmt ")
            /\ Field(header, 16, 4) = 16
            /\ Field(header, 20, 2) = 1
            /\ Field(header, 22, 2) = 1
            /\ Field(header, 24, 4) = 16000
            /\ Field(header, 28, 4) = 32000
            /\ Field(header, 32, 2) = 2
            /\ Field(header, 34, 2) = 16
            /\ SubSeq(header, 37, 40) = TagBytes("data")
            /\ Field(header, 40, 4) = n
            /\ in_flight.audio.data = sessions[in_flight.session_id].audio_buffer

\* a file for four seconds of audio, gathered over several appends, is with
\* the collaborator: its sizes take three bytes to write
C21_Witness ==
    /\ in_flight.op = "process_audio_data"
    /\ Len(in_flight.audio.data) = MaxBuffer
    /\ to_bytes(in_flight.audio.subchunk2_size, 4)[3] # 0
    /\ heard[in_flight.session_id].replies # {}

C27_AppendEventuallyReturns ==
    (in_flight.op = "process_audio_data") ~> (in_flight = NoCall)

\* C24: two connections served by the same RealtimeAudioTranscriber never
\* mix audio: the audio transcribed on behalf of a connection holds only
\* what that connection sent, and a start or stop on one connection never
\* clears audio another connection has buffered.
C24_NoCrossTalk ==
    /\ [](\A c \in Conns :
            \A i \in 1..Len(transcriber.conn[c].transcribed) :
               transcriber.conn[c].transcribed[i] = c)
    /\ [][\A c \in Conns : \A reply \in Replies :
            start_recording_session(c) \/ stop_recording_session(c, reply) =>
               \A i \in 1..Len(transcriber.audio_buffer) :
                  transcriber.audio_buffer[i] # c =>
                     transcriber'.audio_buffer = transcriber.audio_buffer]_vars

====
